---- MODULE Spec2Model ----
(***************************************************************************)
(* The account-linking handlers of src/src/handlers.rs (og_update_user,    *)
(* update_user, create_user, delete_user) as a state machine.  Each        *)
(* worker runs one handler invocation at a time; an invocation advances    *)
(* one awaited collaborator call per step (storage handle, storage         *)
(* lookups and writes, role synchronizer), so invocations of different     *)
(* workers interleave exactly at the handlers' suspension points.          *)
(***************************************************************************)
EXTENDS Integers, Sequences, FiniteSets, TLC

VARIABLES
  store,    \* the persisted account records (the table behind crate::db)
  pc,       \* worker -> the step its invocation is at
  req,      \* worker -> the parsed request of its invocation
  held,     \* worker -> the record the last storage write returned
  gained,   \* worker -> the role names the role synchronizer returned
  resp,     \* worker -> the handler's return value, once it has returned
  audit,    \* worker -> the audit entries its invocation has emitted, in order
  calls,    \* worker -> the collaborator calls its invocation has made, in order
  snap,     \* worker -> the store as it was when its invocation began
  before    \* worker -> what is remembered of the create_user it ran just before

vars == <<store, pc, req, held, gained, resp, audit, calls, snap, before>>

(***************************************************************************)
(* Bounds of the model.                                                    *)
(***************************************************************************)
MaxRoles == 2     \* longest role list the role synchronizer returns
MaxAttr == 1      \* progress attributes range over 0..MaxAttr

Procs == {1, 2}
SeqProcs == {1}

(***************************************************************************)
(* Values.                                                                 *)
(***************************************************************************)
UserdataAuth == "k"
CredPairs == {<<"p", "t">>, <<"q", "u">>}
\* legacy credentials whose concatenations meet, and a second key
LegacyCreds == {<<"p", "t">>, <<"p", "1t">>, <<"p1", "t">>}
AuthKeys == {"k", "j"}
DiscordIds == {"d1", "d2"}
Channels == {"Beta", "Stable"}
Attrs == 0..MaxAttr
DefaultData == 0
RoleNames == {"", "Veteran", "Beta"}
RoleSeqs == UNION {[1..n -> RoleNames] : n \in 0..MaxRoles}

\* Result<T, E>
Ok(v) == [ok |-> TRUE, val |-> {v}, err |-> {}]
Err(e) == [ok |-> FALSE, val |-> {}, err |-> {e}]
ValueOf(r) == CHOOSE v \in r.val : TRUE
ErrorOf(r) == CHOOSE e \in r.err : TRUE

\* MyError
InternalError(m) == [kind |-> "InternalError", msg |-> m]
BadRequest(m) == [kind |-> "BadRequest", msg |-> m]
NotFound == [kind |-> "NotFound", msg |-> ""]

MsgClient == "request failed at creating database client, please try again"
MsgRetrieve == "Failed at retrieving existing data, you may not have your account linked yet"
MsgUpdate == "The request has unfortunately failed the update"
MsgRoles == "The role-handling process has failed"
MsgBoundOther == "This account is already bound to another discord id"
MsgLinked == "You're already linked, please use the update endpoint"
MsgIdBound == "This discord id is already bound to another account"
MsgCreate == "The request has unfortunately failed at creating your account"
MsgDelete == "Failed at deleting userdata, this token may not be valid"
MsgNoRoles == "The request was successful, but you've already gained all of the possible roles with your current progress"
MsgGained == "The request was successful, you've gained the following roles: "

\* ErrorLogType: USER(token) carries the token, INTERNAL carries none
USER(token) == {token}
INTERNAL == {}

(***************************************************************************)
(* Pure helpers of the handlers.                                           *)
(***************************************************************************)
\* Result::make_response: keep Ok, replace any error by the classified one
make_response(result, error_enum) ==
  IF result.ok THEN result ELSE Err(error_enum)

\* webhook_log: one entry handed to the audit sink and awaited; the sink
\* accepts it or drops it and the caller is not told which
webhook_log(log, entry, accepted) == Append(log, [entry EXCEPT !.accepted = accepted])

FailureEntry(error_type, error) ==
  [sev |-> "FAILURE", token |-> error_type, err |-> {error}, id |-> {}, roles |-> "",
   accepted |-> TRUE]

\* mutant: an error classified NotFound is not worth an entry
make_log_sparing(result, error_type, log, accepted) ==
  IF result.ok THEN log
  ELSE IF ErrorOf(result) = NotFound THEN log
  ELSE webhook_log(log, FailureEntry(error_type, ErrorOf(result)), accepted)

\* Result::make_log: an Err is logged at FAILURE severity, an Ok is not logged
make_log(result, error_type, log, accepted) ==
  IF result.ok THEN log
  ELSE webhook_log(log, FailureEntry(error_type, ErrorOf(result)), accepted)

\* Vec<String>::join
RECURSIVE Join(_, _)
Join(s, sep) ==
  IF Len(s) = 0 THEN ""
  ELSE IF Len(s) = 1 THEN s[1]
  ELSE s[1] \o sep \o Join(Tail(s), sep)

\* the caller-visible message of update, legacy update and create-with-defaults
RolesMessage(gained_roles) ==
  IF Join(gained_roles, ", ") = "" THEN MsgNoRoles
  ELSE MsgGained \o Join(gained_roles, ", ")

\* mutant: the entry names no account
LoggedRoles_anonymous(discord_id, gained_roles) ==
  [sev |-> "INFORMATIONAL", token |-> {}, err |-> {}, id |-> {},
   roles |-> Join(gained_roles, ", "), accepted |-> TRUE]

\* the audit entry that goes with it
LoggedRoles(discord_id, gained_roles) ==
  [sev |-> "INFORMATIONAL", token |-> {}, err |-> {}, id |-> {discord_id},
   roles |-> Join(gained_roles, ", "), accepted |-> TRUE]

CreatedEntry(discord_id) ==
  [sev |-> "SUCCESSFUL", token |-> {}, err |-> {}, id |-> {discord_id}, roles |-> "",
   accepted |-> TRUE]

\* the keyed hash, rendered in hex: injective on the key and the bytes it is fed
HmacSha1Hex(key, bytes) == <<key, bytes>>

\* og_update_user: the key, then player_id, then player_token are fed to the hash
OgUserToken(player_id, player_token, key) == HmacSha1Hex(key, player_id \o player_token)

\* utilities::encode_user_token
encode_user_token(email, token, key) == HmacSha1Hex(key, email \o token)

(***************************************************************************)
(* The storage collaborator (crate::db) and the role synchronizer: each    *)
(* operator gives the outcomes a call has by what the store holds.  A      *)
(* storage call may also fail for reasons of its own, whatever the store   *)
(* holds: PoolFault acquiring the handle, DbFault in a query.              *)
(***************************************************************************)
PoolFault == Err("PoolError")
DbFault == Err("DbError")

pool_get == {Ok("client")}

get_userdata(st, token) ==
  {Ok(r) : r \in {x \in st : x.user_token = token}}
    \cup (IF \E x \in st : x.user_token = token THEN {} ELSE {Err("RowNotFound")})

get_userdata_by_id(st, discord_id) ==
  {Ok(r) : r \in {x \in st : x.discord_id = discord_id}}
    \cup (IF \E x \in st : x.discord_id = discord_id THEN {} ELSE {Err("RowNotFound")})

\* mutant: an insert that checks no unique key
create_userdata_unconstrained(st, token, discord_id, beta_tester, data) ==
  LET row == [user_token |-> token, discord_id |-> discord_id,
              beta_tester |-> beta_tester, data |-> data]
  IN {<<Ok(row), st \cup {row}>>}

\* outcomes are pairs <<result, store afterwards>>
create_userdata(st, token, discord_id, beta_tester, data) ==
  LET row == [user_token |-> token, discord_id |-> discord_id,
              beta_tester |-> beta_tester, data |-> data]
  IN IF \E x \in st : x.user_token = token \/ x.discord_id = discord_id
     THEN {<<Err("UniqueViolation"), st>>}
     ELSE {<<Ok(row), st \cup {row}>>}

update_userdata(st, token, beta_tester, data) ==
  LET rows == {x \in st : x.user_token = token}
      new(x) == [x EXCEPT !.beta_tester = beta_tester, !.data = data]
  IN IF rows = {} THEN {<<Err("RowNotFound"), st>>}
     ELSE {<<Ok(new(x)), (st \ rows) \cup {new(y) : y \in rows}>> : x \in rows}

handle_roles(answers) == {Ok(g) : g \in answers} \cup {Err("RoleError")}

(***************************************************************************)
(* Handler return values and bookkeeping.                                  *)
(***************************************************************************)
Pending == [status |-> "pending", msg |-> "", rec |-> {}]
Failure(error) == [status |-> error.kind, msg |-> error.msg, rec |-> {}]
OkMessage(m) == [status |-> "Ok", msg |-> m, rec |-> {}]
OkRecord(r) == [status |-> "Ok", msg |-> "", rec |-> {r}]
NoContent == [status |-> "NoContent", msg |-> "", rec |-> {}]

Outcome(result) == IF result.ok THEN "ok" ELSE ErrorOf(result)
Called(p, name, result) == Append(calls[p], [call |-> name, out |-> Outcome(result)])

NoRequest ==
  [op |-> "none", credentials |-> {}, user_token |-> {}, discord_id |-> {},
   beta_tester |-> FALSE, data |-> DefaultData, is_default |-> FALSE]

\* no call of worker p's invocation failed for a reason of the storage's own
Clean(p) ==
  \A i \in 1..Len(calls[p]) : calls[p][i].out \notin {ErrorOf(PoolFault), ErrorOf(DbFault)}

\* what a worker remembers of the invocation it ran last, when it was a
\* create_user that met no storage fault: its token, and whether it ended in
\* an error of the role synchronizer
Summary(p) ==
  IF req[p].op = "create_user" /\ Clean(p)
  THEN {[user_token |-> t,
         role_error |-> \E i \in 1..Len(calls[p]) :
                          calls[p][i] = [call |-> "handle_roles", out |-> "RoleError"]] :
          t \in req[p].user_token}
  ELSE {}

Init ==
  /\ store = {}
  /\ pc = [p \in Procs |-> "idle"]
  /\ req = [p \in Procs |-> NoRequest]
  /\ held = [p \in Procs |-> {}]
  /\ gained = [p \in Procs |-> <<>>]
  /\ resp = [p \in Procs |-> Pending]
  /\ audit = [p \in Procs |-> <<>>]
  /\ calls = [p \in Procs |-> <<>>]
  /\ snap = [p \in Procs |-> {}]
  /\ before = [p \in Procs |-> {}]

(***************************************************************************)
(* Entry of a handler: the request is parsed, the storage handle is        *)
(* acquired and the identity token is derived.                             *)
(***************************************************************************)
Begin(p, r, token, got, in) ==
  LET client == make_response(got, InternalError(MsgClient))
  IN /\ pc[p] = "idle"
     /\ UNCHANGED before
     /\ snap' = [snap EXCEPT ![p] = IF in.history THEN store ELSE {}]
     /\ calls' = [calls EXCEPT ![p] = <<[call |-> "pool_get", out |-> Outcome(got)]>>]
     /\ \E accepted \in in.sink :
          audit' = [audit EXCEPT ![p] = make_log(client, INTERNAL, <<>>, accepted)]
     /\ held' = [held EXCEPT ![p] = {}]
     /\ gained' = [gained EXCEPT ![p] = <<>>]
     /\ IF client.ok
        THEN /\ req' = [req EXCEPT ![p] = [r EXCEPT !.user_token = {token}]]
             /\ pc' = [pc EXCEPT ![p] = "get_userdata"]
             /\ resp' = [resp EXCEPT ![p] = Pending]
        ELSE /\ req' = [req EXCEPT ![p] = [NoRequest EXCEPT !.op = r.op]]
             /\ pc' = [pc EXCEPT ![p] = "done"]
             /\ resp' = [resp EXCEPT ![p] = Failure(ErrorOf(client))]
     /\ UNCHANGED store

\* the request keeps the inputs of the derivation next to the token derived
og_update_user(p, in) ==
  \E c \in in.creds, key \in in.keys, b \in in.beta_tester, d \in in.attrs,
     got \in pool_get \cup in.pool_faults :
    Begin(p, [NoRequest EXCEPT !.op = "og_update_user", !.beta_tester = b, !.data = d,
                               !.credentials = {<<c[1], c[2], key>>}],
          OgUserToken(c[1], c[2], key), got, in)

update_user(p, in) ==
  \E c \in in.creds, ch \in in.channels, d \in in.attrs, got \in pool_get \cup in.pool_faults :
    Begin(p, [NoRequest EXCEPT !.op = "update_user", !.beta_tester = (ch = "Beta"),
                               !.data = d],
          encode_user_token(c[1], c[2], UserdataAuth), got, in)

\* the channel header and the attribute payload are optional: {} is an absent one
create_user(p, in) ==
  \E c \in in.creds, ch \in {{}} \cup {{x} : x \in in.channels}, id \in in.ids,
     d \in {{}} \cup {{a} : a \in in.attrs}, got \in pool_get \cup in.pool_faults :
    LET distribution_channel == IF ch = {} THEN "" ELSE CHOOSE x \in ch : TRUE
        inner_data == IF d = {} THEN DefaultData ELSE CHOOSE a \in d : TRUE
    IN Begin(p, [NoRequest EXCEPT !.op = "create_user", !.discord_id = {id},
                                  !.beta_tester = (distribution_channel = "Beta"),
                                  !.is_default = (d = {}),
                                  !.data = inner_data],
             encode_user_token(c[1], c[2], UserdataAuth), got, in)

delete_user(p, in) ==
  \E c \in in.creds, got \in pool_get \cup in.pool_faults :
    Begin(p, [NoRequest EXCEPT !.op = "delete_user"],
          encode_user_token(c[1], c[2], UserdataAuth), got, in)

user_token(p) == CHOOSE t \in req[p].user_token : TRUE
request_discord_id(p) == CHOOSE d \in req[p].discord_id : TRUE

\* a step of worker p that returns `error` to the caller
Return(p, response) ==
  /\ pc' = [pc EXCEPT ![p] = "done"]
  /\ resp' = [resp EXCEPT ![p] = response]

Goto(p, step) ==
  /\ pc' = [pc EXCEPT ![p] = step]
  /\ UNCHANGED resp

(***************************************************************************)
(* update_user and og_update_user after the token is derived: the same     *)
(* three awaited calls.                                                    *)
(***************************************************************************)
\* mutant: the lookup's error is dropped and the update goes ahead
GetExisting_unchecked(p, op, in) ==
  /\ pc[p] = "get_userdata" /\ req[p].op = op
  /\ \E accepted \in in.sink, got \in get_userdata(store, user_token(p)) \cup in.db_faults :
       /\ calls' = [calls EXCEPT ![p] = Called(p, "get_userdata", got)]
       /\ UNCHANGED audit
       /\ Goto(p, "update_userdata")
  /\ UNCHANGED <<store, req, held, gained, snap, before>>

GetExisting(p, op, in) ==
  /\ pc[p] = "get_userdata" /\ req[p].op = op
  /\ \E accepted \in in.sink, got \in get_userdata(store, user_token(p)) \cup in.db_faults :
       LET r == make_response(got, InternalError(MsgRetrieve))
       IN /\ calls' = [calls EXCEPT ![p] = Called(p, "get_userdata", got)]
          /\ audit' = [audit EXCEPT ![p] = make_log(r, USER(user_token(p)), audit[p], accepted)]
          /\ IF r.ok THEN Goto(p, "update_userdata") ELSE Return(p, Failure(ErrorOf(r)))
  /\ UNCHANGED <<store, req, held, gained, snap, before>>

UpdateExisting(p, op, in) ==
  /\ pc[p] = "update_userdata" /\ req[p].op = op
  /\ \E accepted \in in.sink, o \in update_userdata(store, user_token(p), req[p].beta_tester, req[p].data)
                 \cup {<<f, store>> : f \in in.db_faults} :
       LET r == make_response(o[1], InternalError(MsgUpdate))
       IN /\ store' = o[2]
          /\ calls' = [calls EXCEPT ![p] = Called(p, "update_userdata", o[1])]
          /\ audit' = [audit EXCEPT ![p] = make_log(r, USER(user_token(p)), audit[p], accepted)]
          /\ held' = [held EXCEPT ![p] = r.val]
          /\ IF r.ok THEN Goto(p, "handle_roles") ELSE Return(p, Failure(ErrorOf(r)))
  /\ UNCHANGED <<req, gained, snap, before>>

\* mutant: the audit entry is written only when roles were gained
SyncRoles_quiet(p, op, in) ==
  /\ pc[p] = "handle_roles" /\ req[p].op = op
  /\ \E accepted \in in.sink, got \in handle_roles(in.roles) :
       LET r == make_response(got, InternalError(MsgRoles))
           logged == make_log(r, USER(user_token(p)), audit[p], accepted)
           data == CHOOSE x \in held[p] : TRUE
       IN /\ calls' = [calls EXCEPT ![p] = Called(p, "handle_roles", got)]
          /\ IF r.ok
             THEN /\ gained' = [gained EXCEPT ![p] = ValueOf(r)]
                  /\ audit' = [audit EXCEPT ![p] =
                                 IF ValueOf(r) = <<>> THEN logged
                                 ELSE webhook_log(logged,
                                        LoggedRoles(data.discord_id, ValueOf(r)), accepted)]
                  /\ Return(p, OkMessage(RolesMessage(ValueOf(r))))
             ELSE /\ UNCHANGED gained
                  /\ audit' = [audit EXCEPT ![p] = logged]
                  /\ Return(p, Failure(ErrorOf(r)))
  /\ UNCHANGED <<store, req, held, snap, before>>

\* mutant: an entry the sink dropped fails the request
SyncRoles_needing_sink(p, op, in) ==
  /\ pc[p] = "handle_roles" /\ req[p].op = op
  /\ \E accepted \in in.sink, got \in handle_roles(in.roles) :
       LET r == make_response(got, InternalError(MsgRoles))
           logged == make_log(r, USER(user_token(p)), audit[p], accepted)
           data == CHOOSE x \in held[p] : TRUE
       IN /\ calls' = [calls EXCEPT ![p] = Called(p, "handle_roles", got)]
          /\ IF r.ok /\ accepted
             THEN /\ gained' = [gained EXCEPT ![p] = ValueOf(r)]
                  /\ audit' = [audit EXCEPT ![p] =
                                 webhook_log(logged, LoggedRoles(data.discord_id, ValueOf(r)), accepted)]
                  /\ Return(p, OkMessage(RolesMessage(ValueOf(r))))
             ELSE /\ UNCHANGED gained
                  /\ audit' = [audit EXCEPT ![p] = logged]
                  /\ Return(p, Failure(InternalError(MsgRoles)))
  /\ UNCHANGED <<store, req, held, snap, before>>

\* mutant: create_user takes the new record back when the roles fail
SyncRoles_undoing(p, op, in) ==
  /\ pc[p] = "handle_roles" /\ req[p].op = op
  /\ \E accepted \in in.sink, got \in handle_roles(in.roles) :
       LET r == make_response(got, InternalError(MsgRoles))
           logged == make_log(r, USER(user_token(p)), audit[p], accepted)
           data == CHOOSE x \in held[p] : TRUE
       IN /\ calls' = [calls EXCEPT ![p] = Called(p, "handle_roles", got)]
          /\ IF r.ok
             THEN /\ gained' = [gained EXCEPT ![p] = ValueOf(r)]
                  /\ UNCHANGED store
                  /\ audit' = [audit EXCEPT ![p] =
                                 webhook_log(logged, LoggedRoles(data.discord_id, ValueOf(r)), accepted)]
                  /\ Return(p, OkMessage(RolesMessage(ValueOf(r))))
             ELSE /\ UNCHANGED gained
                  /\ store' = IF op = "create_user" THEN store \ held[p] ELSE store
                  /\ audit' = [audit EXCEPT ![p] = logged]
                  /\ Return(p, Failure(ErrorOf(r)))
  /\ UNCHANGED <<req, held, snap, before>>

\* the role synchronizer, the message and the audit entry: the same code in
\* update_user, og_update_user and create_user without an attribute payload
SyncRoles(p, op, in) ==
  /\ pc[p] = "handle_roles" /\ req[p].op = op
  /\ \E accepted \in in.sink, got \in handle_roles(in.roles) :
       LET r == make_response(got, InternalError(MsgRoles))
           logged == make_log(r, USER(user_token(p)), audit[p], accepted)
           data == CHOOSE x \in held[p] : TRUE
       IN /\ calls' = [calls EXCEPT ![p] = Called(p, "handle_roles", got)]
          /\ IF r.ok
             THEN /\ gained' = [gained EXCEPT ![p] = ValueOf(r)]
                  /\ audit' = [audit EXCEPT ![p] =
                                 webhook_log(logged, LoggedRoles(data.discord_id, ValueOf(r)), accepted)]
                  /\ Return(p, OkMessage(RolesMessage(ValueOf(r))))
             ELSE /\ UNCHANGED gained
                  /\ audit' = [audit EXCEPT ![p] = logged]
                  /\ Return(p, Failure(ErrorOf(r)))
  /\ UNCHANGED <<store, req, held, snap, before>>

og_update_user_get(p, in) == GetExisting(p, "og_update_user", in)
og_update_user_update(p, in) == UpdateExisting(p, "og_update_user", in)
og_update_user_roles(p, in) == SyncRoles(p, "og_update_user", in)

update_user_get(p, in) == GetExisting(p, "update_user", in)
update_user_update(p, in) == UpdateExisting(p, "update_user", in)
update_user_roles(p, in) == SyncRoles(p, "update_user", in)

(***************************************************************************)
(* create_user: the two existence probes, then the creation.               *)
(***************************************************************************)
\* mutant: the comparison of the two discord ids is inverted
create_user_get_swapped(p, in) ==
  /\ pc[p] = "get_userdata" /\ req[p].op = "create_user"
  /\ \E accepted \in in.sink, got \in get_userdata(store, user_token(p)) \cup in.db_faults :
       LET user_exists == make_response(got, NotFound)
       IN /\ calls' = [calls EXCEPT ![p] = Called(p, "get_userdata", got)]
          /\ audit' = [audit EXCEPT ![p] =
                         make_log(user_exists, USER(user_token(p)), audit[p], accepted)]
          /\ IF user_exists.ok
             THEN IF request_discord_id(p) = ValueOf(user_exists).discord_id
                  THEN Return(p, Failure(BadRequest(MsgBoundOther)))
                  ELSE Return(p, Failure(InternalError(MsgLinked)))
             ELSE Goto(p, "get_userdata_by_id")
  /\ UNCHANGED <<store, req, held, gained, snap, before>>

create_user_get(p, in) ==
  /\ pc[p] = "get_userdata" /\ req[p].op = "create_user"
  /\ \E accepted \in in.sink, got \in get_userdata(store, user_token(p)) \cup in.db_faults :
       LET user_exists == make_response(got, NotFound)
       IN /\ calls' = [calls EXCEPT ![p] = Called(p, "get_userdata", got)]
          /\ audit' = [audit EXCEPT ![p] =
                         make_log(user_exists, USER(user_token(p)), audit[p], accepted)]
          /\ IF user_exists.ok
             THEN IF request_discord_id(p) # ValueOf(user_exists).discord_id
                  THEN Return(p, Failure(BadRequest(MsgBoundOther)))
                  ELSE Return(p, Failure(InternalError(MsgLinked)))
             ELSE Goto(p, "get_userdata_by_id")
  /\ UNCHANGED <<store, req, held, gained, snap, before>>

\* mutant: the lookup by discord id is made and its answer is not looked at
create_user_get_by_id_ignored(p, in) ==
  /\ pc[p] = "get_userdata_by_id" /\ req[p].op = "create_user"
  /\ \E accepted \in in.sink, got \in get_userdata_by_id(store, request_discord_id(p)) \cup in.db_faults :
       LET account_exists_with_id == make_response(got, NotFound)
       IN /\ calls' = [calls EXCEPT ![p] = Called(p, "get_userdata_by_id", got)]
          /\ audit' = [audit EXCEPT ![p] =
                         make_log(account_exists_with_id, USER(user_token(p)), audit[p], accepted)]
          /\ Goto(p, "create_userdata")
  /\ UNCHANGED <<store, req, held, gained, snap, before>>

\* mutant: the probe's error is propagated to the caller, as with `?`
create_user_get_by_id_propagating(p, in) ==
  /\ pc[p] = "get_userdata_by_id" /\ req[p].op = "create_user"
  /\ \E accepted \in in.sink, got \in get_userdata_by_id(store, request_discord_id(p)) \cup in.db_faults :
       LET account_exists_with_id == make_response(got, NotFound)
       IN /\ calls' = [calls EXCEPT ![p] = Called(p, "get_userdata_by_id", got)]
          /\ audit' = [audit EXCEPT ![p] =
                         make_log(account_exists_with_id, USER(user_token(p)), audit[p], accepted)]
          /\ IF account_exists_with_id.ok
             THEN Return(p, Failure(BadRequest(MsgIdBound)))
             ELSE Return(p, Failure(ErrorOf(account_exists_with_id)))
  /\ UNCHANGED <<store, req, held, gained, snap, before>>

create_user_get_by_id(p, in) ==
  /\ pc[p] = "get_userdata_by_id" /\ req[p].op = "create_user"
  /\ \E accepted \in in.sink, got \in get_userdata_by_id(store, request_discord_id(p)) \cup in.db_faults :
       LET account_exists_with_id == make_response(got, NotFound)
       IN /\ calls' = [calls EXCEPT ![p] = Called(p, "get_userdata_by_id", got)]
          /\ audit' = [audit EXCEPT ![p] =
                         make_log(account_exists_with_id, USER(user_token(p)), audit[p], accepted)]
          /\ IF account_exists_with_id.ok
             THEN Return(p, Failure(BadRequest(MsgIdBound)))
             ELSE Goto(p, "create_userdata")
  /\ UNCHANGED <<store, req, held, gained, snap, before>>

\* mutant: the roles are synchronized with or without an attribute payload
create_user_create_syncing(p, in) ==
  /\ pc[p] = "create_userdata" /\ req[p].op = "create_user"
  /\ \E accepted \in in.sink, o \in create_userdata(store, user_token(p), request_discord_id(p),
                              req[p].beta_tester, req[p].data)
                 \cup {<<f, store>> : f \in in.db_faults} :
       LET r == make_response(o[1], InternalError(MsgCreate))
           logged == make_log(r, USER(user_token(p)), audit[p], accepted)
       IN /\ store' = o[2]
          /\ calls' = [calls EXCEPT ![p] = Called(p, "create_userdata", o[1])]
          /\ held' = [held EXCEPT ![p] = r.val]
          /\ IF ~r.ok
             THEN /\ audit' = [audit EXCEPT ![p] = logged]
                  /\ Return(p, Failure(ErrorOf(r)))
             ELSE IF TRUE
             THEN /\ audit' = [audit EXCEPT ![p] = logged]
                  /\ Goto(p, "handle_roles")
             ELSE /\ audit' = [audit EXCEPT ![p] =
                                 webhook_log(logged, CreatedEntry(ValueOf(r).discord_id), accepted)]
                  /\ Return(p, OkRecord(ValueOf(r)))
  /\ UNCHANGED <<req, gained, snap, before>>

create_user_create(p, in) ==
  /\ pc[p] = "create_userdata" /\ req[p].op = "create_user"
  /\ \E accepted \in in.sink, o \in create_userdata(store, user_token(p), request_discord_id(p),
                              req[p].beta_tester, req[p].data)
                 \cup {<<f, store>> : f \in in.db_faults} :
       LET r == make_response(o[1], InternalError(MsgCreate))
           logged == make_log(r, USER(user_token(p)), audit[p], accepted)
       IN /\ store' = o[2]
          /\ calls' = [calls EXCEPT ![p] = Called(p, "create_userdata", o[1])]
          /\ held' = [held EXCEPT ![p] = r.val]
          /\ IF ~r.ok
             THEN /\ audit' = [audit EXCEPT ![p] = logged]
                  /\ Return(p, Failure(ErrorOf(r)))
             ELSE IF req[p].is_default
             THEN /\ audit' = [audit EXCEPT ![p] = logged]
                  /\ Goto(p, "handle_roles")
             ELSE /\ audit' = [audit EXCEPT ![p] =
                                 webhook_log(logged, CreatedEntry(ValueOf(r).discord_id), accepted)]
                  /\ Return(p, OkRecord(ValueOf(r)))
  /\ UNCHANGED <<req, gained, snap, before>>

create_user_roles(p, in) == SyncRoles(p, "create_user", in)

(***************************************************************************)
(* delete_user: the record is looked up and nothing is removed.            *)
(***************************************************************************)
\* mutant: the record that was found is removed
delete_user_get_removing(p, in) ==
  /\ pc[p] = "get_userdata" /\ req[p].op = "delete_user"
  /\ \E accepted \in in.sink, got \in get_userdata(store, user_token(p)) \cup in.db_faults :
       LET r == make_response(got, InternalError(MsgDelete))
       IN /\ calls' = [calls EXCEPT ![p] = Called(p, "get_userdata", got)]
          /\ audit' = [audit EXCEPT ![p] = make_log(r, USER(user_token(p)), audit[p], accepted)]
          /\ store' = store \ r.val
          /\ IF r.ok THEN Return(p, NoContent) ELSE Return(p, Failure(ErrorOf(r)))
  /\ UNCHANGED <<req, held, gained, snap, before>>

delete_user_get(p, in) ==
  /\ pc[p] = "get_userdata" /\ req[p].op = "delete_user"
  /\ \E accepted \in in.sink, got \in get_userdata(store, user_token(p)) \cup in.db_faults :
       LET r == make_response(got, InternalError(MsgDelete))
       IN /\ calls' = [calls EXCEPT ![p] = Called(p, "get_userdata", got)]
          /\ audit' = [audit EXCEPT ![p] = make_log(r, USER(user_token(p)), audit[p], accepted)]
          /\ IF r.ok THEN Return(p, NoContent) ELSE Return(p, Failure(ErrorOf(r)))
  /\ UNCHANGED <<store, req, held, gained, snap, before>>

(***************************************************************************)
(* The response is delivered and the worker is free for the next request.  *)
(***************************************************************************)
respond(p, in) ==
  /\ pc[p] = "done"
  /\ pc' = [pc EXCEPT ![p] = "idle"]
  /\ before' = [before EXCEPT ![p] = IF in.history THEN Summary(p) ELSE {}]
  /\ req' = [req EXCEPT ![p] = NoRequest]
  /\ held' = [held EXCEPT ![p] = {}]
  /\ gained' = [gained EXCEPT ![p] = <<>>]
  /\ resp' = [resp EXCEPT ![p] = Pending]
  /\ audit' = [audit EXCEPT ![p] = <<>>]
  /\ calls' = [calls EXCEPT ![p] = <<>>]
  /\ snap' = [snap EXCEPT ![p] = {}]
  /\ UNCHANGED store

(***************************************************************************)
(* Specifications.  A step of worker p is one step of one handler; `in`    *)
(* is what the environment may send and answer.  Spec: one worker, so      *)
(* invocations run one after the other, over every request and every       *)
(* answer within the bounds.  RaceSpec: the workers of Procs run           *)
(* invocations concurrently, interleaved at every awaited call, over the   *)
(* requests and answers of Racing.                                         *)
(***************************************************************************)
Step(p, in) ==
  \/ og_update_user(p, in)
  \/ og_update_user_get(p, in)
  \/ og_update_user_update(p, in)
  \/ og_update_user_roles(p, in)
  \/ update_user(p, in)
  \/ update_user_get(p, in)
  \/ update_user_update(p, in)
  \/ update_user_roles(p, in)
  \/ create_user(p, in)
  \/ create_user_get(p, in)
  \/ create_user_get_by_id(p, in)
  \/ create_user_create(p, in)
  \/ create_user_roles(p, in)
  \/ delete_user(p, in)
  \/ delete_user_get(p, in)
  \/ respond(p, in)

Every ==
  [creds |-> CredPairs, keys |-> {UserdataAuth}, ids |-> DiscordIds,
   beta_tester |-> BOOLEAN, channels |-> Channels, attrs |-> Attrs,
   roles |-> RoleSeqs, pool_faults |-> {PoolFault}, db_faults |-> {DbFault},
   sink |-> {TRUE}, history |-> TRUE]

Racing ==
  [creds |-> CredPairs, keys |-> {UserdataAuth}, ids |-> DiscordIds,
   beta_tester |-> {TRUE}, channels |-> {"Beta"}, attrs |-> {MaxAttr},
   roles |-> {<<>>, <<"Veteran">>}, pool_faults |-> {}, db_faults |-> {},
   sink |-> {TRUE}, history |-> FALSE]

\* the legacy endpoint alone, over credentials and keys that vary
Deriving ==
  [creds |-> LegacyCreds, keys |-> AuthKeys, ids |-> {},
   beta_tester |-> {TRUE}, channels |-> {}, attrs |-> {DefaultData},
   roles |-> {<<>>}, pool_faults |-> {}, db_faults |-> {},
   sink |-> {TRUE}, history |-> FALSE]

\* one account, every fault, and an audit sink that accepts or drops
Dropping ==
  [creds |-> {<<"p", "t">>}, keys |-> {UserdataAuth}, ids |-> {"d1"},
   beta_tester |-> {TRUE}, channels |-> {"Beta"}, attrs |-> {MaxAttr},
   roles |-> {<<>>, <<"Veteran">>}, pool_faults |-> {PoolFault}, db_faults |-> {DbFault},
   sink |-> BOOLEAN, history |-> FALSE]

Next == \E p \in SeqProcs : Step(p, Every)
Spec == Init /\ [][Next]_vars

RaceNext == \E p \in Procs : Step(p, Racing)
RaceSpec == Init /\ [][RaceNext]_vars

\* TokenSpec: the workers run the legacy endpoint over Deriving, so any two
\* derivations within the bounds stand side by side.
TokenNext ==
  \E p \in Procs :
    \/ og_update_user(p, Deriving)
    \/ og_update_user_get(p, Deriving)
    \/ respond(p, Deriving)
TokenSpec == Init /\ [][TokenNext]_vars

\* SinkSpec: two workers over Dropping, so two invocations of the same
\* request with the same collaborator answers stand side by side, the sink
\* accepting the entries of the one and dropping those of the other.
SinkNext == \E p \in Procs : Step(p, Dropping)
SinkSpec == Init /\ [][SinkNext]_vars

(***************************************************************************)
(* Vocabulary of the properties.                                           *)
(***************************************************************************)
Updates == {"update_user", "og_update_user"}
Errors == {"InternalError", "BadRequest", "NotFound"}

\* worker p's invocation of handler op has returned and is not yet delivered
Returned(p, op) == pc[p] = "done" /\ req[p].op = op

\* the records of st under the token, and under the discord id, of p's request
TokenRows(st, p) == {x \in st : x.user_token \in req[p].user_token}
IdRows(st, p) == {x \in st : x.discord_id \in req[p].discord_id}

\* the outcomes, in order, of the calls p's invocation made to `name`
Outcomes(p, name) ==
  SelectSeq([i \in 1..Len(calls[p]) |-> IF calls[p][i].call = name
                                         THEN calls[p][i].out ELSE "-"],
            LAMBDA o : o # "-")

\* the audit entries of p's invocation that report a success
SuccessEntries(p) ==
  SelectSeq(audit[p], LAMBDA e : e.sev \in {"INFORMATIONAL", "SUCCESSFUL"})

(***************************************************************************)
(* C1.  create_user run twice in sequence with the same identity token.    *)
(***************************************************************************)
\* p's invocation is a create_user that follows a create_user of the same
\* token, neither having met a fault of the storage's own
SecondCreate(p) ==
  /\ Returned(p, "create_user") /\ Clean(p)
  /\ req[p].user_token # {} /\ {b.user_token : b \in before[p]} = req[p].user_token

RejectedAsLinked(p) ==
  /\ Cardinality(TokenRows(store, p)) = 1
  /\ \A x \in TokenRows(store, p) :
       resp[p] = IF x.discord_id \notin req[p].discord_id
                 THEN Failure(BadRequest(MsgBoundOther))
                 ELSE Failure(InternalError(MsgLinked))

\* C1 as stated: for any store state, after create_user has run twice in
\* sequence with the same token there is exactly one record for the token and
\* the second invocation returned BadRequest (bound to another discord id)
\* when the requested id differs from the stored one, InternalError (already
\* linked) when it matches.
C1_TwiceLeavesOneRecord ==
  \A p \in Procs : SecondCreate(p) => RejectedAsLinked(p)

\* C1 as amended: the same, provided a record for the token exists when the
\* second invocation begins (the first one created it or found it); whatever
\* the first one did, at most one record for the token exists afterwards and
\* the second invocation leaves the store as it found it.
C1_SecondCreateRejected ==
  \A p \in Procs :
    SecondCreate(p) =>
      /\ Cardinality(TokenRows(store, p)) <= 1
      /\ TokenRows(snap[p], p) # {} => RejectedAsLinked(p) /\ store = snap[p]

C1_Witness ==
  \E p \in Procs :
    /\ SecondCreate(p) /\ TokenRows(snap[p], p) # {}
    /\ resp[p] = Failure(BadRequest(MsgBoundOther))

(***************************************************************************)
(* C2.  create_user with a new token and a discord id that is taken.       *)
(***************************************************************************)
NewTokenTakenId(p) ==
  /\ Returned(p, "create_user") /\ req[p].user_token # {}
  /\ TokenRows(snap[p], p) = {} /\ IdRows(snap[p], p) # {}

\* C2: when create_user is called with a token that has no record and a
\* discord id that belongs to some record, the store is the same after the
\* call as before it, and the call returns BadRequest unless a storage call
\* of its own failed for a reason of the storage's.
C2_TakenIdRejected ==
  \A p \in Procs :
    NewTokenTakenId(p) =>
      /\ store = snap[p]
      /\ Clean(p) => resp[p] = Failure(BadRequest(MsgIdBound))

C2_Witness ==
  \E p \in Procs :
    /\ NewTokenTakenId(p) /\ Clean(p)
    /\ Outcomes(p, "get_userdata_by_id") = <<"ok">>

(***************************************************************************)
(* C3.  update_user and og_update_user for a token that has no record.     *)
(***************************************************************************)
UpdateOfMissing(p) ==
  /\ \E op \in Updates : Returned(p, op)
  /\ TokenRows(snap[p], p) = {}

\* C3: an update_user or og_update_user for a token that has no record
\* returns InternalError, calls neither the store's update nor the role
\* synchronizer, and leaves the store with no record for the token.
C3_UpdateNeedsRecord ==
  \A p \in Procs :
    UpdateOfMissing(p) =>
      /\ resp[p].status = "InternalError"
      /\ Outcomes(p, "update_userdata") = <<>>
      /\ Outcomes(p, "handle_roles") = <<>>
      /\ TokenRows(store, p) = {}

C3_Witness ==
  \E p \in Procs :
    /\ UpdateOfMissing(p)
    /\ Outcomes(p, "get_userdata") = <<"RowNotFound">>
    /\ resp[p] = Failure(InternalError(MsgRetrieve))

(***************************************************************************)
(* C4.  Uniqueness of the two keys.                                        *)
(***************************************************************************)
\* C4: in every reachable state, under any interleaving of the four
\* handlers, no two records share an identity token and no two records share
\* a discord id.
C4_KeysUnique ==
  \A x, y \in store :
    x # y => x.user_token # y.user_token /\ x.discord_id # y.discord_id

\* two records are stored and a create_user that passed both probes was
\* refused by the store
C4_Witness ==
  /\ Cardinality(store) = 2
  /\ \E p \in Procs :
       /\ Returned(p, "create_user")
       /\ Outcomes(p, "get_userdata_by_id") = <<"RowNotFound">>
       /\ Outcomes(p, "create_userdata") = <<"UniqueViolation">>

(***************************************************************************)
(* C5.  Two create_user invocations that race.                             *)
(***************************************************************************)
\* p passed both existence probes and then lost the creation to another
\* invocation
LostRace(p) ==
  /\ Returned(p, "create_user")
  /\ Outcomes(p, "get_userdata") = <<"RowNotFound">>
  /\ Outcomes(p, "get_userdata_by_id") = <<"RowNotFound">>
  /\ Outcomes(p, "create_userdata") = <<"UniqueViolation">>

\* C5: when two create_user invocations for the same token or the same
\* discord id both pass their probes before either creates, the one that
\* loses the creation returns the conflict error BadRequest.
C5_LoserGetsBadRequest ==
  \A p \in Procs : LostRace(p) => resp[p].status = "BadRequest"

(***************************************************************************)
(* C6.  delete_user removes nothing.                                       *)
(***************************************************************************)
DeleteOfExisting(p) ==
  /\ Returned(p, "delete_user") /\ req[p].user_token # {}
  /\ TokenRows(snap[p], p) # {}

\* C6: delete_user for a token that has a record leaves the store as it
\* was, so the record is still fetched by its token afterwards, and returns
\* the empty success response unless a storage call of its own failed for a
\* reason of the storage's.
C6_DeleteKeepsRecord ==
  \A p \in Procs :
    DeleteOfExisting(p) =>
      /\ store = snap[p]
      /\ \E x \in TokenRows(snap[p], p) : Ok(x) \in get_userdata(store, user_token(p))
      /\ Clean(p) => resp[p] = NoContent

C6_Witness ==
  \E p \in Procs : DeleteOfExisting(p) /\ resp[p] = NoContent

(***************************************************************************)
(* C7.  Every returned error was audited first.                            *)
(***************************************************************************)
\* C7: whenever a handler returns a classified error, its invocation has
\* emitted a FAILURE entry that records that error, with the identity token
\* when the token had been derived and without one when the storage handle
\* could not be acquired.
C7_ErrorsAudited ==
  \A p \in Procs :
    pc[p] = "done" /\ resp[p].status \in Errors =>
      \E i \in 1..Len(audit[p]) :
        /\ audit[p][i].sev = "FAILURE"
        /\ audit[p][i].err = {[kind |-> resp[p].status, msg |-> resp[p].msg]}
        /\ audit[p][i].token = req[p].user_token

(***************************************************************************)
(* C8.  Every success was audited once, by discord id.                     *)
(***************************************************************************)
Succeeded(p) ==
  /\ \E op \in Updates \cup {"create_user"} : Returned(p, op)
  /\ resp[p].status = "Ok"

\* C8: an update_user, og_update_user or create_user that returns success
\* has emitted exactly one INFORMATIONAL or SUCCESSFUL entry, and that entry
\* carries the discord id of the record updated or created, whether or not
\* roles were gained.
C8_SuccessAuditedOnce ==
  \A p \in Procs :
    Succeeded(p) =>
      /\ Len(SuccessEntries(p)) = 1
      /\ \E x \in TokenRows(store, p) : SuccessEntries(p)[1].id = {x.discord_id}

C8_Witness ==
  \E p \in Procs :
    /\ Succeeded(p) /\ gained[p] = <<>>
    /\ Outcomes(p, "handle_roles") = <<"ok">>

(***************************************************************************)
(* C9.  An update that returns an error.                                   *)
(***************************************************************************)
\* C9: whenever update_user or og_update_user returns an error, an error of
\* the role synchronizer included, the record stored for the token is what
\* it was before the invocation.
C9_NoPartialUpdate ==
  \A p \in Procs :
    (\E op \in Updates : Returned(p, op)) /\ resp[p].status \in Errors =>
      TokenRows(store, p) = TokenRows(snap[p], p)

(***************************************************************************)
(* C10.  The caller-visible message about roles.                           *)
(***************************************************************************)
\* C10: for every sequence of role names the role synchronizer returns, the
\* message is the "no new roles" one if and only if the sequence is empty,
\* and otherwise it is the "gained the following roles" text followed by the
\* names joined by ", " in the order returned.
C10_MessageTellsRoles ==
  \A p \in Procs :
    pc[p] = "done" /\ Outcomes(p, "handle_roles") = <<"ok">> =>
      /\ resp[p].msg = MsgNoRoles <=> gained[p] = <<>>
      /\ gained[p] # <<>> => resp[p].msg = MsgGained \o Join(gained[p], ", ")

(***************************************************************************)
(* C11.  The audit output of a successful update.                          *)
(***************************************************************************)
UpdateSucceeded(p) ==
  /\ \E op \in Updates : Returned(p, op)
  /\ resp[p].status = "Ok"

\* C11: an update_user or og_update_user that returns success has emitted
\* no FAILURE entry: its audit output is one entry, of a success severity,
\* that carries the discord id of the record it updated.
C11_SuccessfulUpdateAudit ==
  \A p \in Procs :
    UpdateSucceeded(p) =>
      /\ \A i \in 1..Len(audit[p]) : audit[p][i].sev # "FAILURE"
      /\ Len(audit[p]) = 1
      /\ audit[p][1].sev \in {"INFORMATIONAL", "SUCCESSFUL"}
      /\ \E x \in held[p] : audit[p][1].id = {x.discord_id}

C11_Witness ==
  \E p \in Procs :
    /\ UpdateSucceeded(p) /\ Len(gained[p]) = MaxRoles
    /\ Outcomes(p, "update_userdata") = <<"ok">>
    /\ Len(audit[p]) = 1

(***************************************************************************)
(* C12.  create_user and the NotFound classification.                      *)
(***************************************************************************)
\* C12: create_user never returns NotFound: what it returns is a success,
\* BadRequest or InternalError, also after a probe that was classified
\* NotFound.
C12_CreateNeverNotFound ==
  \A p \in Procs :
    Returned(p, "create_user") =>
      /\ resp[p].status # "NotFound"
      /\ resp[p].status \in {"Ok", "BadRequest", "InternalError"}

\* both probes were classified NotFound and audited as such, and the
\* invocation has returned
C12_Witness ==
  \E p \in Procs :
    /\ Returned(p, "create_user")
    /\ Len(audit[p]) >= 2
    /\ audit[p][1].err = {NotFound} /\ audit[p][2].err = {NotFound}
    /\ resp[p].status = "InternalError"

(***************************************************************************)
(* C13.  The legacy token derivation.                                      *)
(***************************************************************************)
\* worker p's invocation of the legacy endpoint has derived its token
LegacyDerived(p) == req[p].op = "og_update_user" /\ req[p].user_token # {}

\* C13: the same player id, player token and key always derive the same
\* identity token, and two triples that differ in the player id, the player
\* token or the key derive different identity tokens.
C13_TokenDistinguishesInputs ==
  \A p, q \in Procs :
    LegacyDerived(p) /\ LegacyDerived(q) =>
      (req[p].credentials = req[q].credentials <=> req[p].user_token = req[q].user_token)

(***************************************************************************)
(* C14.  What each handler may do to the store.                            *)
(***************************************************************************)
Keys(st) == {<<x.user_token, x.discord_id>> : x \in st}
Stepped(p, step) == pc[p] = step /\ pc'[p] # step

StoreFrame ==
  /\ Keys(store) \subseteq Keys(store')
  /\ Cardinality(store') >= Cardinality(store)
  /\ Keys(store') # Keys(store) =>
       \E p \in Procs : req[p].op = "create_user" /\ Stepped(p, "create_userdata")
  /\ store' # store /\ Keys(store') = Keys(store) =>
       \E p \in Procs : req[p].op \in Updates /\ Stepped(p, "update_userdata")

\* C14: in every step, every record stays in the store under the same token
\* and discord id; a record is added only by the creation call of a
\* create_user, and the attributes or channel flag of a record change only
\* by the update call of an update_user or og_update_user.
C14_StoreFrame == [][StoreFrame]_vars

\* two records are stored and an update has just changed one of them
C14_Witness ==
  \E p \in Procs :
    /\ UpdateSucceeded(p)
    /\ Cardinality(store) = 2 /\ Keys(store) = Keys(snap[p])
    /\ store # snap[p]

(***************************************************************************)
(* C15.  create_user and the role synchronizer.                            *)
(***************************************************************************)
CreatedBy(p) ==
  /\ Returned(p, "create_user")
  /\ Outcomes(p, "create_userdata") = <<"ok">>

\* C15: a create_user without an attribute payload calls the role
\* synchronizer once, right after the creation call succeeded, and returns
\* the message about roles when the synchronizer answers; a create_user with
\* an attribute payload never calls the role synchronizer and returns the
\* record it created.
C15_RoleSyncOnlyWithoutPayload ==
  \A p \in Procs :
    req[p].op = "create_user" =>
      /\ ~req[p].is_default => Outcomes(p, "handle_roles") = <<>>
      /\ Outcomes(p, "handle_roles") # <<>> =>
           /\ Len(Outcomes(p, "handle_roles")) = 1
           /\ calls[p][Len(calls[p])].call = "handle_roles"
           /\ calls[p][Len(calls[p]) - 1] = [call |-> "create_userdata", out |-> "ok"]
      /\ CreatedBy(p) =>
           IF req[p].is_default
           THEN /\ Len(Outcomes(p, "handle_roles")) = 1
                /\ Outcomes(p, "handle_roles") = <<"ok">> =>
                     resp[p] = OkMessage(RolesMessage(gained[p]))
           ELSE /\ held[p] = TokenRows(store, p)
                /\ \E x \in held[p] : resp[p] = OkRecord(x)

C15_Witness ==
  \E p \in Procs :
    /\ CreatedBy(p) /\ req[p].is_default
    /\ gained[p] = <<"Veteran">>
    /\ resp[p] = OkMessage(MsgGained \o "Veteran")

(***************************************************************************)
(* C16.  The chain of calls stops at the first failure.                    *)
(***************************************************************************)
\* the i-th call of p's invocation failed; a probe of create_user that
\* answers "no such record" has answered, not failed
Failed(p, i) ==
  /\ calls[p][i].out # "ok"
  /\ ~ /\ req[p].op = "create_user"
       /\ calls[p][i].call \in {"get_userdata", "get_userdata_by_id"}
       /\ calls[p][i].out = "RowNotFound"

\* C16: once a collaborator call of an invocation has failed, the
\* invocation makes no further call, of the storage or of the role
\* synchronizer, and has returned an error.
C16_ShortCircuit ==
  \A p \in Procs :
    \A i \in 1..Len(calls[p]) :
      Failed(p, i) =>
        /\ i = Len(calls[p])
        /\ pc[p] = "done"
        /\ resp[p].status \in Errors

(***************************************************************************)
(* C17.  Creation only after two "not found".                              *)
(***************************************************************************)
\* C17: when create_user has called the store's create, both lookups, by
\* token and by discord id, had answered "no such record"; a lookup that
\* failed for another reason is not followed by the creation call.
C17_CreateOnlyAfterNotFound ==
  \A p \in Procs :
    req[p].op = "create_user" /\ Outcomes(p, "create_userdata") # <<>> =>
      /\ Outcomes(p, "get_userdata") = <<"RowNotFound">>
      /\ Outcomes(p, "get_userdata_by_id") = <<"RowNotFound">>

(***************************************************************************)
(* C18.  The audit sink and the response.                                  *)
(***************************************************************************)
\* p and q ran the same request and got the same answers from the storage
\* and the role synchronizer
SameRun(p, q) ==
  /\ pc[p] = "done" /\ pc[q] = "done"
  /\ req[p] = req[q] /\ calls[p] = calls[q]

Accepted(p) == [i \in 1..Len(audit[p]) |-> audit[p][i].accepted]

SinkBlind ==
  \A p, q \in Procs : SameRun(p, q) => resp[p].status = resp[q].status

\* an entry is emitted, and the sink has answered, in a step of the handler
\* that comes before its return
EmittedBeforeReturn ==
  \A p \in Procs :
    /\ Len(audit'[p]) > Len(audit[p]) => pc[p] # "done" /\ resp[p] = Pending
    /\ pc[p] = "done" => audit'[p] = audit[p] \/ pc'[p] = "idle"

\* C18: every entry of an invocation is emitted, the sink having accepted
\* or dropped it, before the handler returns, and the kind of result the
\* handler returns is the same whether the sink accepted or dropped the
\* entries.
C18_AuditBeforeResponse == []SinkBlind /\ [][EmittedBeforeReturn]_vars

\* the same successful update twice: its entry accepted, and its entry dropped
C18_Witness ==
  \E p, q \in Procs :
    /\ SameRun(p, q) /\ resp[p].status = "Ok"
    /\ Len(audit[p]) = 1 /\ Len(audit[q]) = 1
    /\ \A i \in 1..Len(audit[p]) : Accepted(p)[i]
    /\ \A i \in 1..Len(audit[q]) : ~Accepted(q)[i]

(***************************************************************************)
(* C19.  The audit output of create_user.                                  *)
(***************************************************************************)
ReachedCreate(p) ==
  /\ req[p].op = "create_user"
  /\ pc[p] = "create_userdata" \/ Outcomes(p, "create_userdata") # <<>>

ProbeEntry(p, i) ==
  /\ audit[p][i].sev = "FAILURE"
  /\ audit[p][i].token = req[p].user_token
  /\ audit[p][i].err = {NotFound}

\* C19: a create_user that reaches the creation call has emitted exactly
\* two FAILURE entries by then, one for each probe and each with the
\* identity token; when it returns success its audit output is those two
\* followed by one entry of a success severity.
C19_TwoFailuresBeforeCreate ==
  \A p \in Procs :
    ReachedCreate(p) =>
      /\ Len(audit[p]) >= 2 /\ ProbeEntry(p, 1) /\ ProbeEntry(p, 2)
      /\ pc[p] = "create_userdata" => Len(audit[p]) = 2
      /\ pc[p] = "done" /\ resp[p].status = "Ok" =>
           /\ Len(audit[p]) = 3
           /\ audit[p][3].sev \in {"INFORMATIONAL", "SUCCESSFUL"}

C19_Witness ==
  \E p \in Procs :
    /\ ReachedCreate(p) /\ pc[p] = "done" /\ resp[p].status = "Ok"
    /\ Len(audit[p]) = 3 /\ audit[p][3].sev = "SUCCESSFUL"

(***************************************************************************)
(* C20.  A creation whose role synchronization fails, and the next one.    *)
(***************************************************************************)
\* p's create_user created the record and the role synchronizer then failed
Unsynced(p) ==
  /\ CreatedBy(p)
  /\ Outcomes(p, "handle_roles") = <<"RoleError">>

\* p's create_user follows such a one, with its token and its discord id
AfterUnsynced(p) ==
  /\ Returned(p, "create_user") /\ req[p].user_token # {}
  /\ before[p] = {[user_token |-> user_token(p), role_error |-> TRUE]}
  /\ \E x \in TokenRows(snap[p], p) : x.discord_id \in req[p].discord_id

\* C20: a create_user without an attribute payload whose creation succeeds
\* and whose role synchronization fails returns InternalError and the record
\* stays stored; the create_user that follows with the same token and
\* discord id never calls the role synchronizer, leaves the store as it is
\* and returns the "already linked" InternalError unless a storage call of
\* its own failed for a reason of the storage's.
C20_UnsyncedStaysLinked ==
  \A p \in Procs :
    /\ Unsynced(p) =>
         /\ req[p].is_default
         /\ resp[p] = Failure(InternalError(MsgRoles))
         /\ held[p] # {} /\ held[p] \subseteq store
    /\ AfterUnsynced(p) =>
         /\ Outcomes(p, "handle_roles") = <<>>
         /\ store = snap[p]
         /\ Clean(p) => resp[p] = Failure(InternalError(MsgLinked))

C20_Witness ==
  \E p \in Procs :
    /\ AfterUnsynced(p) /\ Clean(p)
    /\ resp[p] = Failure(InternalError(MsgLinked))

====
